---- MODULE Spec2Model ----
(***************************************************************************)
(* State-machine model of the multi-engine correlation engine              *)
(* (frontend/detector/correlation_engine.py, class CorrelationBrain).      *)
(*                                                                         *)
(* Alerts are Python dicts.  A dict passed to ingest_alert is stored in    *)
(* memory by reference, so the model keeps a heap (object id -> alert) and *)
(* memory maps an entity to a sequence of object ids.  A key that a dict   *)
(* does not hold is the value MISSING.                                     *)
(***************************************************************************)
EXTENDS Integers, Sequences, FiniteSets, TLC

VARIABLES
    threshold,               \* self.threshold
    time_window,             \* self.time_window
    memory,                  \* self.memory: entity -> sequence of alert object ids
    cooldowns,               \* self.cooldowns: entity -> last incident time
    total_alerts_processed,  \* self.total_alerts_processed
    incidents_generated,     \* self.incidents_generated
    heap,                    \* the alert dicts that memory or a running call refers to
    now,                     \* the value time.time() returns
    calls,                   \* history: ingest_alert calls started since construction
    call,                    \* history: what the last operation was and what it returned
    history,                 \* history: incidents returned and suppressed since construction / reset
    th,                      \* per caller: position and locals of a running ingest_alert
    probe                    \* a helper function called on its own: its input and what it returned

vars == <<threshold, time_window, memory, cooldowns, total_alerts_processed,
          incidents_generated, heap, now, calls, call, history, th, probe>>

-----------------------------------------------------------------------------
(* Bounds of the model *)

MaxCalls == 3
MaxConcCalls == 2
MaxTime == 60
MaxScoreLen == 4
MaxPatternLen == 6

(* Program constants *)

COOLDOWN_PERIOD == 60
DEFAULT_THRESHOLD == 60
DEFAULT_TIME_WINDOW == 900
MAX_RETRIES == 3

MISSING == "<missing>"
\* an engine value that is present and is no str (an int, None)
NOT_A_STR == "<not a str>"

-----------------------------------------------------------------------------
(* Python values inside an alert's details *)

\* a scalar value: t is its Python type, s is what str() renders
StrVal(s) == [t |-> "str", s |-> s]
IntVal(s) == [t |-> "int", s |-> s]
NoneVal == [t |-> "none", s |-> "None"]

\* bool(value)
Truthy(v) == ~(v.t = "none" \/ (v.t = "str" /\ v.s = "") \/ (v.t = "int" /\ v.s = "0"))

\* str(value)
Str(v) == v.s

NoFields == [x \in {} |-> NoneVal]

\* a value found where a dict is expected: k is its Python type, f its items
Dict(f) == [k |-> "dict", f |-> f]
Absent == [k |-> "absent", f |-> NoFields]
NotADict(k) == [k |-> k, f |-> NoFields]

\* details: its scalar fields f, and the two nested objects the extractor visits
Details(k, f, flow, profile) ==
    [k |-> k, f |-> f, flow_data |-> flow, user_profile |-> profile]
NoDetails == Details("absent", NoFields, Absent, Absent)

\* an alert dict
Alert(engine, severity, alertType, details, timestamp) ==
    [engine |-> engine, severity |-> severity, alertType |-> alertType,
     details |-> details, timestamp |-> timestamp]

\* `field in obj`: raises TypeError when obj is no container
InRaises(obj) == obj.k \in {"int", "none"}
\* `field in obj and obj[field]` for a field name that is no substring of a str obj
HasTruthy(obj, field) ==
    /\ obj.k = "dict"
    /\ field \in DOMAIN obj.f
    /\ Truthy(obj.f[field])

ip_fields == <<"ip_address", "source_ip", "destination_ip", "SourceIP",
               "DestinationIP", "target_ip", "attacker_ip">>
user_fields == <<"user_id", "username", "email">>

Range(s) == {s[i] : i \in DOMAIN s}

\* alert.get('details', {})
GetDetails(alert) ==
    IF alert.details.k = "absent" THEN Details("dict", NoFields, Absent, Absent)
    ELSE alert.details

\* the entities one of the two field loops contributes from obj
FieldEntities(obj, fields, prefix) ==
    {prefix \o Str(obj.f[fld]) : fld \in {x \in Range(fields) : HasTruthy(obj, x)}}

extract_entities_raises(alert) ==
    LET details == GetDetails(alert) IN
    \/ InRaises(details)
    \/ /\ details.k = "dict"
       /\ \/ InRaises(details.flow_data)
          \/ InRaises(details.user_profile)

\* list(set(entities)): the set; the list order is the caller's choice of a permutation
extract_entities(alert) ==
    LET details == GetDetails(alert)
        top == [k |-> details.k, f |-> details.f]
        nested(o) == IF details.k = "dict" THEN o ELSE Absent
    IN  FieldEntities(top, ip_fields, "")
        \cup FieldEntities(nested(details.flow_data), ip_fields, "")
        \cup FieldEntities(top, user_fields, "USER:")
        \cup FieldEntities(nested(details.user_profile), user_fields, "USER:")
        \cup FieldEntities(top, <<"file_hash">>, "HASH:")
        \cup FieldEntities(top, <<"filename">>, "FILE:")

\* the appends of one of the two field loops, in the order of the loop
FieldList(obj, fields, prefix) ==
    LET found == SelectSeq(fields, LAMBDA x : HasTruthy(obj, x))
    IN  [i \in DOMAIN found |-> prefix \o Str(obj.f[found[i]])]

\* the list `entities` as it is before `list(set(entities))`
collect_entities(alert) ==
    LET details == GetDetails(alert)
        top == [k |-> details.k, f |-> details.f]
        nested(o) == IF details.k = "dict" THEN o ELSE Absent
    IN  FieldList(top, ip_fields, "")
        \o FieldList(nested(details.flow_data), ip_fields, "")
        \o FieldList(top, user_fields, "USER:")
        \o FieldList(nested(details.user_profile), user_fields, "USER:")
        \o FieldList(top, <<"file_hash">>, "HASH:")
        \o FieldList(top, <<"filename">>, "FILE:")

-----------------------------------------------------------------------------
(* _calculate_risk_score *)

\* dict.get(key, default)
Get(value, default) == IF value = MISSING THEN default ELSE value

SeverityKeys == {"Critical", "High", "Medium", "Low"}

\* faulty variant: the scores of High and Medium are exchanged
severity_points_swapped(severity) ==
    IF severity = "Critical" THEN 40
    ELSE IF severity = "High" THEN 10
    ELSE IF severity = "Medium" THEN 20
    ELSE 5

\* the if / elif chain of base scores
severity_points(severity) ==
    IF severity = "Critical" THEN 40
    ELSE IF severity = "High" THEN 20
    ELSE IF severity = "Medium" THEN 10
    ELSE 5

\* faulty variant: round(score * 1.5) and round(score * 2.5), halves rounded up
correlation_multiplier_rounded(score, num_engines) ==
    IF num_engines = 2 THEN (score * 3 + 1) \div 2
    ELSE IF num_engines = 3 THEN score * 2
    ELSE IF num_engines >= 4 THEN (score * 5 + 1) \div 2
    ELSE score

\* faulty variant: the branch for three engines is missing
correlation_multiplier_no_three(score, num_engines) ==
    IF num_engines = 2 THEN (score * 3) \div 2
    ELSE IF num_engines >= 4 THEN (score * 5) \div 2
    ELSE score

\* int(score * 1.5), int(score * 2.0), int(score * 2.5): score is never negative
correlation_multiplier(score, num_engines) ==
    IF num_engines = 2 THEN (score * 3) \div 2
    ELSE IF num_engines = 3 THEN score * 2
    ELSE IF num_engines >= 4 THEN (score * 5) \div 2
    ELSE score

ScoreStart ==
    [raised |-> FALSE, score |-> 0, engines_involved |-> {},
     severity_counts |-> [Critical |-> 0, High |-> 0, Medium |-> 0, Low |-> 0]]

\* one iteration of the loop; severity_counts[severity] += 1 raises KeyError
\* for a severity that is no key of severity_counts
score_step(acc, alert) ==
    LET engine == Get(alert.engine, "Unknown")
        severity == Get(alert.severity, "Low")
    IN  IF acc.raised THEN acc
        ELSE IF severity \notin SeverityKeys
        THEN [acc EXCEPT !.raised = TRUE,
                         !.engines_involved = @ \cup {engine}]
        ELSE [acc EXCEPT !.engines_involved = @ \cup {engine},
                         !.severity_counts[severity] = @ + 1,
                         !.score = @ + severity_points(severity)]

RECURSIVE score_loop(_, _, _)
score_loop(alerts, i, acc) ==
    IF i > Len(alerts) THEN acc
    ELSE score_loop(alerts, i + 1, score_step(acc, alerts[i]))

\* returns (risk_score, engines_involved, severity_counts), or raises
calculate_risk_score(alerts) ==
    LET acc == score_loop(alerts, 1, ScoreStart) IN
    [raised |-> acc.raised,
     risk_score |-> IF acc.raised THEN 0
                    ELSE correlation_multiplier(acc.score, Cardinality(acc.engines_involved)),
     engines |-> acc.engines_involved,
     severity_counts |-> acc.severity_counts]

-----------------------------------------------------------------------------
(* _detect_attack_patterns; a label stands for the full text of the pattern *)

\* alert.get('engine'): None when the key is missing
EngineOrNone(alert) == Get(alert.engine, "None")

\* faulty variant: MULTI_STAGE_ATTACK from three engines on
detect_attack_patterns_three(alerts) ==
    LET engines == {EngineOrNone(alerts[i]) : i \in DOMAIN alerts}
        artifact_alerts == SelectSeq(alerts, LAMBDA a : EngineOrNone(a) = "Artifact Engine")
        when(cond, label) == IF cond THEN <<label>> ELSE << >>
    IN  when({"Artifact Engine", "Traffic Engine", "Threat Intelligence"} \subseteq engines,
             "APT_CHAIN")
        \o when("UEBA" \in engines
                  /\ ("Traffic Engine" \in engines \/ "Artifact Engine" \in engines),
                "INSIDER_THREAT")
        \o when({"IDS", "Traffic Engine"} \subseteq engines, "NETWORK_ATTACK")
        \o when(Len(artifact_alerts) >= 2, "MALWARE_OUTBREAK")
        \o when(Cardinality(engines) >= 3, "MULTI_STAGE_ATTACK")

\* faulty variant: one Artifact Engine alert is taken for an outbreak
detect_attack_patterns_artifact(alerts) ==
    LET engines == {EngineOrNone(alerts[i]) : i \in DOMAIN alerts}
        artifact_alerts == SelectSeq(alerts, LAMBDA a : EngineOrNone(a) = "Artifact Engine")
        when(cond, label) == IF cond THEN <<label>> ELSE << >>
    IN  when({"Artifact Engine", "Traffic Engine", "Threat Intelligence"} \subseteq engines,
             "APT_CHAIN")
        \o when("UEBA" \in engines
                  /\ ("Traffic Engine" \in engines \/ "Artifact Engine" \in engines),
                "INSIDER_THREAT")
        \o when({"IDS", "Traffic Engine"} \subseteq engines, "NETWORK_ATTACK")
        \o when(Len(artifact_alerts) >= 1, "MALWARE_OUTBREAK")
        \o when(Cardinality(engines) >= 4, "MULTI_STAGE_ATTACK")

detect_attack_patterns(alerts) ==
    LET engines == {EngineOrNone(alerts[i]) : i \in DOMAIN alerts}
        artifact_alerts == SelectSeq(alerts, LAMBDA a : EngineOrNone(a) = "Artifact Engine")
        when(cond, label) == IF cond THEN <<label>> ELSE << >>
    IN  when({"Artifact Engine", "Traffic Engine", "Threat Intelligence"} \subseteq engines,
             "APT_CHAIN")
        \o when("UEBA" \in engines
                  /\ ("Traffic Engine" \in engines \/ "Artifact Engine" \in engines),
                "INSIDER_THREAT")
        \o when({"IDS", "Traffic Engine"} \subseteq engines, "NETWORK_ATTACK")
        \o when(Len(artifact_alerts) >= 2, "MALWARE_OUTBREAK")
        \o when(Cardinality(engines) >= 4, "MULTI_STAGE_ATTACK")

\* AttackChainDetector: the same rules as static methods
detect_apt_chain(alerts) ==
    {"Artifact Engine", "Traffic Engine", "Threat Intelligence"}
        \subseteq {EngineOrNone(alerts[i]) : i \in DOMAIN alerts}

detect_insider_threat(alerts) ==
    LET engines == {EngineOrNone(alerts[i]) : i \in DOMAIN alerts} IN
    "UEBA" \in engines /\ ("Traffic Engine" \in engines \/ "Artifact Engine" \in engines)

detect_network_attack(alerts) ==
    {"IDS", "Traffic Engine"} \subseteq {EngineOrNone(alerts[i]) : i \in DOMAIN alerts}

-----------------------------------------------------------------------------
(* The engine.  A machine state m holds the fields of one CorrelationBrain   *)
(* and the alert objects; locals holds, per caller, the position and the    *)
(* local variables of its running ingest_alert call.                        *)

Callers == {1, 2}

Machine ==
    [memory |-> memory, cooldowns |-> cooldowns,
     total_alerts_processed |-> total_alerts_processed,
     incidents_generated |-> incidents_generated, heap |-> heap, history |-> history]

NoResult == [kind |-> "none", incident |-> << >>]
Raised == [kind |-> "raised", incident |-> << >>]

Idle ==
    [pc |-> "idle", alert |-> 0, entities |-> << >>, idx |-> 0, live |-> FALSE,
     snapshot |-> << >>, score |-> calculate_risk_score(<< >>), callno |-> 0,
     overlaps |-> {}, cleaned_at |-> 0, pruned |-> << >>, emitted_at |-> 0,
     result |-> NoResult]

\* self.memory[entity] of the defaultdict, without creating the key
Lookup(mem, entity) == IF entity \in DOMAIN mem THEN mem[entity] ELSE << >>

\* the alert dicts a list of object ids refers to
Deref(hp, ids) == [i \in DOMAIN ids |-> hp[ids[i]]]

\* faulty variant: an alert aged exactly time_window is kept
is_recent_inclusive(alert, current_time, window) ==
    (current_time - alert.timestamp) <= window

\* (current_time - alert['timestamp']) < self.time_window
is_recent(alert, current_time, window) == (current_time - alert.timestamp) < window

\* faulty variant: the keys left empty are not deleted
clean_old_memory_keeps_keys(mem, hp, current_time, window) ==
    [entity \in DOMAIN mem |->
        SelectSeq(mem[entity], LAMBDA id : is_recent(hp[id], current_time, window))]

\* _clean_old_memory: filter every list, delete the keys left empty
clean_old_memory(mem, hp, current_time, window) ==
    LET kept(entity) == SelectSeq(mem[entity],
                                  LAMBDA id : is_recent(hp[id], current_time, window))
        left == {entity \in DOMAIN mem : kept(entity) # << >>}
    IN  [entity \in left |-> kept(entity)]

\* faulty variant: the alert is put in front of the list
append_alert_in_front(mem, entity, id) ==
    IF entity \in DOMAIN mem THEN [mem EXCEPT ![entity] = <<id>> \o @]
    ELSE mem @@ (entity :> <<id>>)

\* self.memory[entity].append(alert)
append_alert(mem, entity, id) ==
    IF entity \in DOMAIN mem THEN [mem EXCEPT ![entity] = Append(@, id)]
    ELSE mem @@ (entity :> <<id>>)

\* faulty variant: the threshold is reached 20 points early
over_threshold_early(risk_score, limit) == risk_score >= limit - 20

\* risk_score >= self.threshold
over_threshold(risk_score, limit) == risk_score >= limit

\* faulty variant: the cooldown ends one second early
cooldown_admits_early(cd, entity, t) ==
    ~(entity \in DOMAIN cd /\ (t - cd[entity]) < COOLDOWN_PERIOD - 1)

\* faulty variant: the cooldown still holds at exactly 60 seconds
cooldown_admits_late(cd, entity, t) ==
    ~(entity \in DOMAIN cd /\ (t - cd[entity]) <= COOLDOWN_PERIOD)

\* the cooldown test: False when the entity fired less than 60 seconds ago
cooldown_admits(cd, entity, t) ==
    ~(entity \in DOMAIN cd /\ (t - cd[entity]) < COOLDOWN_PERIOD)

\* self.cooldowns[entity] = time.time()
write_cooldown(cd, entity, t) ==
    IF entity \in DOMAIN cd THEN [cd EXCEPT ![entity] = t] ELSE cd @@ (entity :> t)

\* faulty variant: the largest element taken for the smallest
min_largest(S) == CHOOSE x \in S : \A y \in S : x >= y

Min(S) == CHOOSE x \in S : \A y \in S : x <= y
Max(S) == CHOOSE x \in S : \A y \in S : x >= y

\* faulty variant: the timeline numbered from 0
timeline_entry_from_zero(idx, a) ==
    ToString(idx - 1) \o ". [" \o Get(a.engine, "Unknown") \o "] "
        \o Get(a.alertType, "Unknown") \o " (" \o Get(a.severity, "Low") \o ")"

\* f"{idx}. [{engine}] {alert_type} ({severity})"
timeline_entry(idx, a) ==
    ToString(idx) \o ". [" \o Get(a.engine, "Unknown") \o "] "
        \o Get(a.alertType, "Unknown") \o " (" \o Get(a.severity, "Low") \o ")"

\* the incident dict's details; alert_ids records which objects the timeline lists
build_incident(entity, score, entity_alerts, ids) ==
    LET stamps == {entity_alerts[i].timestamp : i \in DOMAIN entity_alerts} IN
    [target_entity |-> entity,
     risk_score |-> score.risk_score,
     engines_involved |-> score.engines,
     engine_count |-> Cardinality(score.engines),
     alert_count |-> Len(entity_alerts),
     severity_breakdown |-> score.severity_counts,
     attack_patterns |-> detect_attack_patterns(entity_alerts),
     timeline |-> [i \in DOMAIN entity_alerts |-> timeline_entry(i, entity_alerts[i])],
     window_start |-> Min(stamps),
     window_end |-> Max(stamps),
     attack_duration |-> Max(stamps) - Min(stamps),
     alert_ids |-> ids]

-----------------------------------------------------------------------------
(* ingest_alert, statement by statement.  ingest_step executes the next      *)
(* statement of caller c's call at clock value t and returns the new machine *)
(* state and locals.                                                         *)

\* entity_alerts of a caller: the list object self.memory[entity] it fetched,
\* or that list as it was when _clean_old_memory replaced it in self.memory
EntityAlerts(m, L) ==
    IF L.live THEN Lookup(m.memory, L.entities[L.idx]) ELSE L.snapshot

\* `continue`, or the end of the for loop and `return None`
next_entity(L) ==
    IF L.idx = Len(L.entities)
    THEN [L EXCEPT !.pc = "done", !.result = NoResult]
    ELSE [L EXCEPT !.pc = "append", !.idx = @ + 1, !.live = FALSE, !.snapshot = << >>]

\* line 191: self._clean_old_memory(); the lists other callers hold are replaced
step_clean(m, locals, c, t) ==
    LET cleaned == clean_old_memory(m.memory, m.heap, t, time_window) IN
    [m |-> [m EXCEPT !.memory = cleaned],
     th |-> [d \in DOMAIN locals |->
               IF d = c THEN [locals[d] EXCEPT !.pc = "count", !.cleaned_at = t,
                                               !.pruned = cleaned]
               ELSE IF locals[d].live
               THEN [locals[d] EXCEPT !.live = FALSE,
                                      !.snapshot = EntityAlerts(m, locals[d])]
               ELSE locals[d]]]

\* faulty variant: the alert is counted only once it is known to have entities
step_count_late(m, locals, c, t) ==
    [m |-> IF locals[c].entities = << >> THEN m
           ELSE [m EXCEPT !.total_alerts_processed = @ + 1],
     th |-> [locals EXCEPT ![c].pc = "stamp"]]

\* line 192: self.total_alerts_processed += 1
step_count(m, locals, c, t) ==
    [m |-> [m EXCEPT !.total_alerts_processed = @ + 1],
     th |-> [locals EXCEPT ![c].pc = "stamp"]]

\* lines 195-204: stamp the alert, extract its entities, return None when there are none
step_stamp(m, locals, c, t) ==
    LET L == locals[c]
        hp == [m.heap EXCEPT ![L.alert].timestamp = t]
        L2 == IF extract_entities_raises(hp[L.alert])
              THEN [L EXCEPT !.pc = "done", !.result = Raised]
              ELSE IF L.entities = << >>
              THEN [L EXCEPT !.pc = "done", !.result = NoResult]
              ELSE [L EXCEPT !.pc = "append", !.idx = 1]
    IN  [m |-> [m EXCEPT !.heap = hp], th |-> [locals EXCEPT ![c] = L2]]

\* faulty variant: the alert is appended for every entity before the first is scored
RECURSIVE append_to_all(_, _, _)
append_to_all(mem, entities, id) ==
    IF entities = << >> THEN mem
    ELSE append_to_all(append_alert(mem, Head(entities), id), Tail(entities), id)

step_append_all_first(m, locals, c, t) ==
    LET L == locals[c] IN
    [m |-> IF L.idx = 1 THEN [m EXCEPT !.memory = append_to_all(@, L.entities, L.alert)]
           ELSE m,
     th |-> [locals EXCEPT ![c].pc = "score"]]

\* line 208: self.memory[entity].append(alert)
step_append(m, locals, c, t) ==
    LET L == locals[c] IN
    [m |-> [m EXCEPT !.memory = append_alert(@, L.entities[L.idx], L.alert)],
     th |-> [locals EXCEPT ![c].pc = "score"]]

\* lines 211-215: fetch the entity's list (the defaultdict creates a missing key),
\* score it and compare with the threshold
step_score(m, locals, c, t) ==
    LET L == locals[c]
        entity == L.entities[L.idx]
        mem == IF entity \in DOMAIN m.memory THEN m.memory
               ELSE m.memory @@ (entity :> << >>)
        score == calculate_risk_score(Deref(m.heap, mem[entity]))
        L1 == [L EXCEPT !.live = TRUE, !.score = score]
        L2 == IF score.raised THEN [L1 EXCEPT !.pc = "done", !.result = Raised]
              ELSE IF over_threshold(score.risk_score, threshold)
              THEN [L1 EXCEPT !.pc = "check_cooldown"]
              ELSE next_entity(L1)
    IN  [m |-> [m EXCEPT !.memory = mem], th |-> [locals EXCEPT ![c] = L2]]

\* an event of the history: an incident returned, or an entity over the threshold
\* that the cooldown suppressed
Event(kind, L, t) ==
    [kind |-> kind, entity |-> L.entities[L.idx], time |-> t, call |-> L.callno,
     overlaps |-> L.overlaps]

\* lines 217-220: the cooldown test
step_check_cooldown(m, locals, c, t) ==
    LET L == locals[c]
        admitted == cooldown_admits(m.cooldowns, L.entities[L.idx], t)
    IN  [m |-> IF admitted THEN m
               ELSE [m EXCEPT !.history = @ \cup {Event("suppressed", L, t)}],
         th |-> [locals EXCEPT ![c] =
                   IF admitted THEN [L EXCEPT !.pc = "write_cooldown"]
                   ELSE next_entity(L)]]

\* faulty variant: the incident is emitted and the cooldown table is left as it was
step_write_cooldown_skipped(m, locals, c, t) ==
    [m |-> m, th |-> [locals EXCEPT ![c].pc = "count_incident", ![c].emitted_at = t]]

\* line 223: self.cooldowns[entity] = time.time()
step_write_cooldown(m, locals, c, t) ==
    LET L == locals[c] IN
    [m |-> [m EXCEPT !.cooldowns = write_cooldown(@, L.entities[L.idx], t)],
     th |-> [locals EXCEPT ![c].pc = "count_incident", ![c].emitted_at = t]]

\* line 224: self.incidents_generated += 1
step_count_incident(m, locals, c, t) ==
    [m |-> [m EXCEPT !.incidents_generated = @ + 1],
     th |-> [locals EXCEPT ![c].pc = "build"]]

\* line 261: ', '.join(engines) raises TypeError when an engine is no str
join_raises(engines) == NOT_A_STR \in engines

\* lines 227-271: patterns, timeline, the incident dict, the report, return
step_build(m, locals, c, t) ==
    LET L == locals[c]
        entity == L.entities[L.idx]
        ids == EntityAlerts(m, L)
        incident == build_incident(entity, L.score, Deref(m.heap, ids), ids)
    IN  IF join_raises(L.score.engines)
        THEN [m |-> m, th |-> [locals EXCEPT ![c].pc = "done", ![c].result = Raised]]
        ELSE [m |-> [m EXCEPT !.history = @ \cup {Event("incident", L, L.emitted_at)}],
              th |-> [locals EXCEPT ![c].pc = "done",
                                    ![c].result = [kind |-> "incident",
                                                   incident |-> incident]]]

ingest_step(m, locals, c, t) ==
    CASE locals[c].pc = "clean" -> step_clean(m, locals, c, t)
      [] locals[c].pc = "count" -> step_count(m, locals, c, t)
      [] locals[c].pc = "stamp" -> step_stamp(m, locals, c, t)
      [] locals[c].pc = "append" -> step_append(m, locals, c, t)
      [] locals[c].pc = "score" -> step_score(m, locals, c, t)
      [] locals[c].pc = "check_cooldown" -> step_check_cooldown(m, locals, c, t)
      [] locals[c].pc = "write_cooldown" -> step_write_cooldown(m, locals, c, t)
      [] locals[c].pc = "count_incident" -> step_count_incident(m, locals, c, t)
      [] locals[c].pc = "build" -> step_build(m, locals, c, t)

\* the whole call, with no other caller in between and one clock value
RECURSIVE ingest_alert(_, _, _, _)
ingest_alert(m, locals, c, t) ==
    IF locals[c].pc = "done" THEN [m |-> m, th |-> locals]
    ELSE LET r == ingest_step(m, locals, c, t) IN ingest_alert(r.m, r.th, c, t)

-----------------------------------------------------------------------------
(* Inputs *)

\* the caller's dict has no 'timestamp' key
NoTimestamp == 0 - 1

IP == "10.0.0.5"
Flat(f) == Details("dict", f, Absent, Absent)

CritIp ==
    Alert("Artifact Engine", "Critical", "Malware Detected",
          Flat("source_ip" :> StrVal(IP)), NoTimestamp)
BareIpUser ==
    Alert(MISSING, MISSING, MISSING,
          Flat(("source_ip" :> StrVal(IP)) @@ ("destination_ip" :> StrVal(IP))
               @@ ("user_id" :> StrVal("bob"))), NoTimestamp)
CritThree ==
    Alert("UEBA", "Critical", "Suspicious Login",
          Details("dict", ("filename" :> StrVal("malware.exe")) @@ ("email" :> StrVal("")),
                  Dict("SourceIP" :> StrVal(IP)), Dict("username" :> StrVal("bob"))),
          7)
NoEntity ==
    Alert("IDS", "High", "Port Scan", Flat("error" :> IntVal("0")), NoTimestamp)
BadSeverity ==
    Alert("Traffic Engine", "Info", "Anomalous Traffic",
          Flat("source_ip" :> StrVal(IP)), NoTimestamp)
BadFlow ==
    Alert("Traffic Engine", "High", "Anomalous Traffic",
          Details("dict", "source_ip" :> StrVal(IP), NotADict("int"), Absent), NoTimestamp)

BadEngine ==
    Alert(NOT_A_STR, "Critical", "Malware Detected",
          Flat("source_ip" :> StrVal(IP)), NoTimestamp)

AlertInputs == {CritIp, BareIpUser, CritThree, NoEntity, BadSeverity, BadFlow, BadEngine}

\* the constructor arguments (threshold, time_window) the model is built with
Configs == {<<40, 30>>, <<40, DEFAULT_TIME_WINDOW>>,
            <<DEFAULT_THRESHOLD, DEFAULT_TIME_WINDOW>>}
TickSteps == {30, 59}

\* every order in which list(set(entities)) can list the set S
RECURSIVE Perms(_)
Perms(S) ==
    IF S = {} THEN {<< >>}
    ELSE UNION {{<<x>> \o p : p \in Perms(S \ {x})} : x \in S}

Orders(alert) ==
    IF extract_entities_raises(alert) THEN {<< >>} ELSE Perms(extract_entities(alert))

-----------------------------------------------------------------------------
(* Actions *)

NoProbe == [input |-> << >>, output |-> << >>]

\* the history record of an operation that is no ingest_alert call
NoCall(op, result) ==
    [op |-> op, caller |-> 0, alert |-> 0, content |-> Alert("", "", "", NoDetails, 0),
     at |-> now, order |-> << >>, pruned |-> << >>, result |-> result]

\* CorrelationBrain(threshold, time_window), for one of the argument pairs cfgs
Constructed(cfgs) ==
    /\ \E cfg \in cfgs : threshold = cfg[1] /\ time_window = cfg[2]
    /\ memory = << >>
    /\ cooldowns = << >>
    /\ total_alerts_processed = 0
    /\ incidents_generated = 0
    /\ heap = << >>
    /\ now = 0
    /\ calls = 0
    /\ call = NoCall("init", NoResult)
    /\ history = {}
    /\ th = [c \in Callers |-> Idle]

Init == Constructed(Configs) /\ probe = NoProbe

\* the alert objects still referred to: by memory, by a list a caller holds, by a call
Referenced(mem, locals) ==
    UNION {Range(mem[e]) : e \in DOMAIN mem}
    \cup UNION {Range(locals[c].snapshot) : c \in DOMAIN locals}
    \cup {locals[c].alert : c \in {d \in DOMAIN locals : locals[d].pc # "idle"}}

Restrict(f, S) == [x \in (DOMAIN f) \cap S |-> f[x]]

\* what a finished call did: the alert as stamped, the clock value and the memory of
\* its pruning, and the entities its loop visited, in the order it visited them
Summary(L, hp) ==
    [op |-> "ingest", caller |-> L.callno, alert |-> L.alert, content |-> hp[L.alert],
     at |-> L.cleaned_at, order |-> SubSeq(L.entities, 1, L.idx), pruned |-> L.pruned,
     result |-> L.result]

\* the locals of a call that starts for alert object id
Start(c, id, order) ==
    [Idle EXCEPT !.pc = "clean", !.alert = id, !.entities = order, !.callno = calls + 1,
                 !.overlaps = {th[d].callno : d \in {x \in Callers \ {c} : th[x].pc # "idle"}}]

\* the machine and locals r after a call (or a statement of it) become the state
Becomes(r, c) ==
    LET finished == r.th[c].pc = "done"
        locals == IF finished THEN [r.th EXCEPT ![c] = Idle] ELSE r.th
    IN  /\ memory' = r.m.memory
        /\ cooldowns' = r.m.cooldowns
        /\ total_alerts_processed' = r.m.total_alerts_processed
        /\ incidents_generated' = r.m.incidents_generated
        /\ history' = r.m.history
        /\ th' = locals
        /\ heap' = Restrict(r.m.heap, Referenced(r.m.memory, locals))
        /\ call' = IF finished THEN Summary(r.th[c], r.m.heap) ELSE call

\* the clock advances
Tick ==
    /\ calls < MaxCalls
    /\ \E d \in TickSteps : now + d <= MaxTime /\ now' = now + d
    /\ UNCHANGED <<threshold, time_window, memory, cooldowns, total_alerts_processed,
                   incidents_generated, heap, calls, call, history, th, probe>>

\* brain.ingest_alert(alert) with a new dict, as one atomic step
Ingest ==
    /\ calls < MaxCalls
    /\ \E alert \in AlertInputs : \E order \in Orders(alert) :
         LET id == calls + 1
             m0 == [Machine EXCEPT !.heap = @ @@ (id :> alert)]
             r == ingest_alert(m0, [th EXCEPT ![1] = Start(1, id, order)], 1, now)
         IN  Becomes(r, 1)
    /\ calls' = calls + 1
    /\ UNCHANGED <<threshold, time_window, now, probe>>

\* brain.ingest_alert(alert) with a dict that an earlier call stored
ReIngest ==
    /\ calls < MaxCalls
    /\ \E id \in DOMAIN heap : \E order \in Orders(heap[id]) :
         LET r == ingest_alert(Machine, [th EXCEPT ![1] = Start(1, id, order)], 1, now)
         IN  Becomes(r, 1)
    /\ calls' = calls + 1
    /\ UNCHANGED <<threshold, time_window, now, probe>>

\* brain.get_statistics()
get_statistics ==
    [total_alerts_processed |-> total_alerts_processed,
     incidents_generated |-> incidents_generated,
     entities_tracked |-> Cardinality(DOMAIN memory),
     active_entities |->
        {[entity |-> e, alert_count |-> Len(memory[e]),
          engines |-> {EngineOrNone(heap[memory[e][i]]) : i \in DOMAIN memory[e]}]
         : e \in DOMAIN memory}]

GetStatistics ==
    /\ call.op # "stats"
    /\ calls < MaxCalls
    /\ call' = NoCall("stats", [kind |-> "stats", incident |-> get_statistics])
    /\ UNCHANGED <<threshold, time_window, memory, cooldowns, total_alerts_processed,
                   incidents_generated, heap, now, calls, history, th, probe>>

\* faulty variant: reset that leaves the cooldowns in place
reset_keeps_cooldowns(m) ==
    [m EXCEPT !.memory = << >>, !.total_alerts_processed = 0,
              !.incidents_generated = 0, !.heap = << >>, !.history = {}]

\* self.memory.clear(); self.cooldowns.clear(); both counters = 0
reset(m) ==
    [m EXCEPT !.memory = << >>, !.cooldowns = << >>, !.total_alerts_processed = 0,
              !.incidents_generated = 0, !.heap = << >>, !.history = {}]

\* brain.reset(); the summary of the call keeps the cooldowns it cleared
Reset ==
    /\ call.op # "reset"
    /\ calls < MaxCalls
    /\ LET m == reset(Machine)
       IN  /\ memory' = m.memory
           /\ cooldowns' = m.cooldowns
           /\ total_alerts_processed' = m.total_alerts_processed
           /\ incidents_generated' = m.incidents_generated
           /\ heap' = m.heap
           /\ history' = m.history
    /\ call' = NoCall("reset", [kind |-> "reset", incident |-> cooldowns])
    /\ UNCHANGED <<threshold, time_window, now, calls, th, probe>>

Next == Tick \/ Ingest \/ Reset

\* every call is given a new dict, as every caller in the repository does
Spec == Init /\ [][Next]_vars

NextReuse == Next \/ ReIngest

\* callers may also pass a dict again that the engine has stored
SpecReuse == Init /\ [][NextReuse]_vars

-----------------------------------------------------------------------------
(* ingest_alert called by two threads on one CorrelationBrain with no lock:    *)
(* the statements of the two calls interleave and the clock advances between   *)
(* them                                                                        *)

\* alert2 of the demo: below the threshold on its own
MedIp ==
    Alert("Traffic Engine", "Medium", "Anomalous Traffic",
          Flat("source_ip" :> StrVal(IP)), NoTimestamp)

ConcInputs == {CritIp, MedIp}
ConcConfigs == {<<40, 30>>}

InitConc == Constructed(ConcConfigs) /\ probe = NoProbe

\* a thread calls brain.ingest_alert(alert) with a new dict
Begin(c) ==
    /\ calls < MaxConcCalls
    /\ th[c].pc = "idle"
    /\ \E alert \in ConcInputs : \E order \in Orders(alert) :
         /\ heap' = heap @@ ((calls + 1) :> alert)
         /\ th' = [th EXCEPT ![c] = Start(c, calls + 1, order)]
    /\ calls' = calls + 1
    /\ UNCHANGED <<threshold, time_window, memory, cooldowns, total_alerts_processed,
                   incidents_generated, now, call, history, probe>>

\* the thread executes the next statement of its call
Step(c) ==
    /\ th[c].pc # "idle"
    /\ LET r == ingest_step(Machine, th, c, now) IN Becomes(r, c)
    /\ UNCHANGED <<threshold, time_window, now, calls, probe>>

\* the clock advances, also while calls are under way
TickConc ==
    /\ calls < MaxConcCalls \/ \E c \in Callers : th[c].pc # "idle"
    /\ \E d \in TickSteps : now + d <= MaxTime /\ now' = now + d
    /\ UNCHANGED <<threshold, time_window, memory, cooldowns, total_alerts_processed,
                   incidents_generated, heap, calls, call, history, th, probe>>

NextConc == (\E c \in Callers : Begin(c)) \/ (\E c \in Callers : Step(c)) \/ TickConc

SpecConc == InitConc /\ [][NextConc]_vars

\* one caller only: the calls do not overlap, and the clock, which ingest_alert
\* reads anew at lines 47, 195, 218 and 223, may advance between two readings
NextClock == Begin(1) \/ Step(1) \/ TickConc

SpecClock == InitConc /\ [][NextClock]_vars

-----------------------------------------------------------------------------
(* The engine with its reporting operation: ingest_alert, get_statistics and   *)
(* reset called in any order                                                   *)

StatsInputs == {CritIp, BareIpUser, NoEntity, BadSeverity, BadEngine}
StatsConfigs == {<<40, 30>>}

InitStats == Constructed(StatsConfigs) /\ probe = NoProbe

\* brain.ingest_alert(alert) with a new dict, as one atomic step
IngestStats ==
    /\ calls < MaxCalls
    /\ \E alert \in StatsInputs : \E order \in Orders(alert) :
         LET id == calls + 1
             m0 == [Machine EXCEPT !.heap = @ @@ (id :> alert)]
             r == ingest_alert(m0, [th EXCEPT ![1] = Start(1, id, order)], 1, now)
         IN  Becomes(r, 1)
    /\ calls' = calls + 1
    /\ UNCHANGED <<threshold, time_window, now, probe>>

NextStats == Tick \/ IngestStats \/ GetStatistics \/ Reset

SpecStats == InitStats /\ [][NextStats]_vars

-----------------------------------------------------------------------------
(* The scenario of the demo and of spec.md: a brain with the default threshold *)
(* and window is fed well-formed alerts about one IP address                   *)

ScenarioInputs == {CritIp, MedIp, BareIpUser}

InitScenario ==
    Constructed({<<DEFAULT_THRESHOLD, DEFAULT_TIME_WINDOW>>}) /\ probe = NoProbe

\* brain.ingest_alert(alert) with one of the scenario's alerts, as one atomic step
IngestScenario ==
    /\ calls < MaxCalls
    /\ \E alert \in ScenarioInputs : \E order \in Orders(alert) :
         LET id == calls + 1
             m0 == [Machine EXCEPT !.heap = @ @@ (id :> alert)]
             r == ingest_alert(m0, [th EXCEPT ![1] = Start(1, id, order)], 1, now)
         IN  Becomes(r, 1)
    /\ calls' = calls + 1
    /\ UNCHANGED <<threshold, time_window, now, probe>>

NextScenario == Tick \/ IngestScenario

SpecScenario == InitScenario /\ [][NextScenario]_vars

\* the same alerts fed to a brain with the default threshold and either the
\* default window or one short enough for alerts to expire
DefaultThresholdConfigs ==
    {<<DEFAULT_THRESHOLD, 30>>, <<DEFAULT_THRESHOLD, DEFAULT_TIME_WINDOW>>}

InitDefault == Constructed(DefaultThresholdConfigs) /\ probe = NoProbe

SpecDefault == InitDefault /\ [][NextScenario]_vars

-----------------------------------------------------------------------------
(* _calculate_risk_score called on its own, on every sequence of up to MaxScoreLen *)
(* alerts drawn from ScoreAlerts                                               *)

ScoreAlert(engine, severity) == Alert(engine, severity, MISSING, NoDetails, 0)

ScoreAlerts ==
    {ScoreAlert("Artifact Engine", sev) :
        sev \in {"Critical", "High", "Medium", "Low", MISSING, "Info"}}
    \cup {ScoreAlert("Traffic Engine", "Medium"), ScoreAlert("Traffic Engine", "Low"),
          ScoreAlert("UEBA", "Low"), ScoreAlert("IDS", "Low"), ScoreAlert(MISSING, "Low")}

InitScore ==
    /\ Constructed({<<DEFAULT_THRESHOLD, DEFAULT_TIME_WINDOW>>})
    /\ probe = [input |-> << >>, output |-> calculate_risk_score(<< >>)]

\* one more alert in the sequence, and the scorer's answer for it
ScoreAppend ==
    /\ Len(probe.input) < MaxScoreLen
    /\ \E alert \in ScoreAlerts :
         LET alerts == Append(probe.input, alert) IN
         probe' = [input |-> alerts, output |-> calculate_risk_score(alerts)]
    /\ UNCHANGED <<threshold, time_window, memory, cooldowns, total_alerts_processed,
                   incidents_generated, heap, now, calls, call, history, th>>

SpecScore == InitScore /\ [][ScoreAppend]_vars

-----------------------------------------------------------------------------
(* _extract_entities called on its own, on alerts whose details hold up to     *)
(* MaxFields top-level fields, with or without flow_data and user_profile      *)

MaxFields == 2

ExtractNames == {"source_ip", "destination_ip", "user_id", "file_hash", "filename",
                 "hostname"}
ExtractValues == {StrVal(IP), StrVal("bob"), StrVal(""), IntVal("5"), NoneVal}
ExtractFlows == {Dict("SourceIP" :> StrVal(IP)), NotADict("int")}
ExtractProfiles == {Dict("username" :> StrVal("bob")), NotADict("none")}

\* the extractor applied to an alert with these details: what it raised or
\* appended, and the list it returned (list(set(entities)) in one of its orders)
Extraction(details, order) ==
    LET alert == Alert("IDS", "High", "Port Scan", details, NoTimestamp) IN
    [input |-> alert,
     raised |-> extract_entities_raises(alert),
     collected |-> IF extract_entities_raises(alert) THEN << >>
                   ELSE collect_entities(alert),
     output |-> order]

ExtractOrders(details) ==
    LET alert == Alert("IDS", "High", "Port Scan", details, NoTimestamp) IN
    IF extract_entities_raises(alert) THEN {<< >>}
    ELSE Perms(Range(collect_entities(alert)))

InitExtract ==
    /\ Constructed({<<DEFAULT_THRESHOLD, DEFAULT_TIME_WINDOW>>})
    /\ probe = Extraction(Flat(NoFields), << >>)

Probed(details) ==
    /\ \E order \in ExtractOrders(details) : probe' = Extraction(details, order)
    /\ UNCHANGED <<threshold, time_window, memory, cooldowns, total_alerts_processed,
                   incidents_generated, heap, now, calls, call, history, th>>

\* one more top-level field in details
ExtractField ==
    /\ Cardinality(DOMAIN probe.input.details.f) < MaxFields
    /\ \E name \in ExtractNames \ DOMAIN probe.input.details.f : \E value \in ExtractValues :
         Probed([probe.input.details EXCEPT !.f = @ @@ (name :> value)])

\* details gets a flow_data entry
ExtractFlow ==
    /\ probe.input.details.flow_data = Absent
    /\ \E flow \in ExtractFlows : Probed([probe.input.details EXCEPT !.flow_data = flow])

\* details gets a user_profile entry
ExtractProfile ==
    /\ probe.input.details.user_profile = Absent
    /\ \E profile \in ExtractProfiles :
         Probed([probe.input.details EXCEPT !.user_profile = profile])

NextExtract == ExtractField \/ ExtractFlow \/ ExtractProfile

SpecExtract == InitExtract /\ [][NextExtract]_vars

-----------------------------------------------------------------------------
(* send_alert (detector.py), one POST attempt per step, beside an engine that  *)
(* is ingesting alerts.  probe holds the state of the delivery.                *)

MaxSends == 1

\* the values of Config.MAX_RETRIES: the default and the smaller counts
RetryLimits == 0..MAX_RETRIES

SendInputs == {CritIp, NoEntity}
SendConfigs == {<<40, 30>>}

NotSending(limit) ==
    [pc |-> "idle", max_retries |-> limit, sends |-> 0, retry_count |-> 0,
     attempts |-> 0, last |-> "none", result |-> FALSE]

InitSend ==
    /\ Constructed(SendConfigs)
    /\ \E limit \in RetryLimits : probe = NotSending(limit)

\* faulty variant: one retry more than configured
may_retry_once_more(retry_count, limit) == retry_count <= limit

\* if retry_count < Config.MAX_RETRIES
may_retry(retry_count, limit) == retry_count < limit

\* brain.ingest_alert(alert) with a new dict, as one atomic step
IngestSend ==
    /\ calls < MaxCalls
    /\ \E alert \in SendInputs : \E order \in Orders(alert) :
         LET id == calls + 1
             m0 == [Machine EXCEPT !.heap = @ @@ (id :> alert)]
             r == ingest_alert(m0, [th EXCEPT ![1] = Start(1, id, order)], 1, now)
         IN  Becomes(r, 1)
    /\ calls' = calls + 1
    /\ UNCHANGED <<threshold, time_window, now, probe>>

\* the engine's variables, which no statement of send_alert names
EngineUnchanged ==
    UNCHANGED <<threshold, time_window, memory, cooldowns, total_alerts_processed,
                incidents_generated, heap, now, calls, call, history, th>>

\* send_alert(final_alert): retry_count = 0
SendAlert ==
    /\ probe.pc \in {"idle", "returned"}
    /\ probe.sends < MaxSends
    /\ probe' = [probe EXCEPT !.pc = "post", !.sends = @ + 1, !.retry_count = 0,
                              !.attempts = 0, !.last = "none", !.result = FALSE]
    /\ EngineUnchanged

\* requests.post and raise_for_status succeed: return True
PostSucceeds ==
    /\ probe.pc = "post"
    /\ probe' = [probe EXCEPT !.pc = "returned", !.attempts = @ + 1, !.last = "ok",
                              !.result = TRUE]
    /\ EngineUnchanged

\* requests.post or raise_for_status raises: send_alert(payload, retry_count + 1),
\* or return False
PostFails ==
    /\ probe.pc = "post"
    /\ probe' = IF may_retry(probe.retry_count, probe.max_retries)
                THEN [probe EXCEPT !.attempts = @ + 1, !.last = "failed",
                                   !.retry_count = @ + 1]
                ELSE [probe EXCEPT !.pc = "returned", !.attempts = @ + 1,
                                   !.last = "failed", !.result = FALSE]
    /\ EngineUnchanged

NextSend == Tick \/ IngestSend \/ SendAlert \/ PostSucceeds \/ PostFails

\* every attempt returns or raises within its timeout, so a delivery under way
\* takes its next step
SpecSend == InitSend /\ [][NextSend]_vars /\ WF_vars(PostSucceeds \/ PostFails)

-----------------------------------------------------------------------------
(* _detect_attack_patterns called on its own, on every sequence of up to        *)
(* MaxPatternLen alerts drawn from PatternAlerts                                *)

PatternAlert(engine) == Alert(engine, MISSING, MISSING, NoDetails, 0)

\* the five engines of the platform, an engine name outside them, and no engine key
PatternEngines ==
    {"Artifact Engine", "Traffic Engine", "Threat Intelligence", "UEBA", "IDS",
     "Unknown", MISSING}

PatternAlerts == {PatternAlert(engine) : engine \in PatternEngines}

InitPattern ==
    /\ Constructed({<<DEFAULT_THRESHOLD, DEFAULT_TIME_WINDOW>>})
    /\ probe = [input |-> << >>, output |-> detect_attack_patterns(<< >>)]

\* one more alert in the sequence, and the patterns matched for it
PatternAppend ==
    /\ Len(probe.input) < MaxPatternLen
    /\ \E alert \in PatternAlerts :
         LET alerts == Append(probe.input, alert) IN
         probe' = [input |-> alerts, output |-> detect_attack_patterns(alerts)]
    /\ UNCHANGED <<threshold, time_window, memory, cooldowns, total_alerts_processed,
                   incidents_generated, heap, now, calls, call, history, th>>

SpecPattern == InitPattern /\ [][PatternAppend]_vars

-----------------------------------------------------------------------------
(* Properties *)

\* the step is an ingest_alert call executed as a whole (Spec, SpecReuse)
IsIngest == calls' = calls + 1

\* the incidents returned, the suppressions, since construction or the last reset
fired == {h \in history : h.kind = "incident"}
suppressed == {h \in history : h.kind = "suppressed"}

Returned(kind) == call.op = "ingest" /\ call.result.kind = kind
Incident == call.result.incident

\* the alert dicts stored for an entity
Stored(entity) == Deref(heap, Lookup(memory, entity))

\* C1: with every ingest_alert call atomic and no reset in between, any two
\* incidents returned for one entity are emitted at least 60 seconds apart,
\* whatever the threshold and the time window.
C1_CooldownSpacing ==
    \A p \in fired : \A q \in fired :
        (p # q /\ p.entity = q.entity) =>
            (p.time - q.time >= COOLDOWN_PERIOD \/ q.time - p.time >= COOLDOWN_PERIOD)

\* an entity fires, is pruned from memory, is re-created by a call that is
\* suppressed although the entity is over the threshold again, and fires again
C1_Witness ==
    /\ time_window < COOLDOWN_PERIOD
    /\ Returned("incident")
    /\ \E p \in fired : \E q \in suppressed :
         /\ p.entity = Incident.target_entity
         /\ q.entity = Incident.target_entity
         /\ p.call < q.call
         /\ q.call < call.caller
         /\ q.time - p.time >= time_window

\* C2: after a call made at time t every stored alert has t - timestamp < time_window,
\* and the score, alert count and timeline of a returned incident are computed from
\* exactly the stored sequence of its entity: the alerts that survived this call's
\* pruning plus the alert ingested.
C2_WindowExclusion ==
    call.op = "ingest" =>
        /\ \A e \in DOMAIN memory : \A i \in DOMAIN memory[e] :
             call.at - heap[memory[e][i]].timestamp < time_window
        /\ \A e \in Range(call.order) :
             \/ call.result.kind = "raised"
             \/ memory[e] = Append(Lookup(call.pruned, e), call.alert)
        /\ call.result.kind = "incident" =>
             /\ Incident.alert_ids = memory[Incident.target_entity]
             /\ Incident.alert_count = Len(Incident.alert_ids)
             /\ Len(Incident.timeline) = Len(Incident.alert_ids)
             /\ Incident.risk_score =
                  calculate_risk_score(Stored(Incident.target_entity)).risk_score
             /\ Incident.window_start > call.at - time_window

\* the entity of the incident fired before, yet the incident counts one alert only:
\* the alerts it had then have been pruned
C2_Witness ==
    /\ Returned("incident")
    /\ Incident.alert_count = 1
    /\ \E p \in fired : p.entity = Incident.target_entity /\ p.time < call.at

\* the raw severity sum and the number of distinct engine names of a sequence,
\* counted alert by alert
SeverityOf(alert) == Get(alert.severity, "Low")
CountOf(alerts, sevs) == Cardinality({i \in DOMAIN alerts : SeverityOf(alerts[i]) \in sevs})
CountOther(alerts) ==
    Cardinality({i \in DOMAIN alerts :
                    SeverityOf(alerts[i]) \notin {"Critical", "High", "Medium"}})
RawSum(alerts) ==
    40 * CountOf(alerts, {"Critical"}) + 20 * CountOf(alerts, {"High"})
        + 10 * CountOf(alerts, {"Medium"}) + 5 * CountOther(alerts)
EngineCount(alerts) ==
    Cardinality({Get(alerts[i].engine, "Unknown") : i \in DOMAIN alerts})

\* r is the integer part of num * S / 2
IntegerPart(r, num, S) == 2 * r <= num * S /\ num * S < 2 * r + 2

\* C5: for a sequence with raw severity sum S and n distinct engine names the
\* scorer returns S for n = 1, the integer part of 1.5*S for n = 2, 2*S for n = 3
\* and the integer part of 2.5*S for n >= 4 (truncated, never rounded up).
C5_MultiplierTable ==
    LET S == RawSum(probe.input)
        n == EngineCount(probe.input)
        r == probe.output.risk_score
    IN  (~probe.output.raised /\ n >= 1) =>
            /\ n = 1 => r = S
            /\ n = 2 => IntegerPart(r, 3, S)
            /\ n = 3 => r = 2 * S
            /\ n >= 4 => IntegerPart(r, 5, S)
            /\ (S = 15 /\ n = 2) => r = 22
            /\ (S = 25 /\ n = 4) => r = 62

\* a sum of 25 over four engines: 62.5 is returned as 62
C5_Witness ==
    /\ ~probe.output.raised
    /\ RawSum(probe.input) = 25
    /\ EngineCount(probe.input) = 4
    /\ probe.output.risk_score = 62

\* C6: the raw score adds 40 per Critical, 20 per High, 10 per Medium and 5 for
\* any other severity; a missing or unrecognized severity counts as Low, and the
\* scorer returns a score, an engine set and a severity breakdown for every sequence.
C6_SeverityWeights ==
    LET alerts == probe.input IN
    /\ ~probe.output.raised
    /\ probe.output.risk_score = correlation_multiplier(RawSum(alerts), EngineCount(alerts))
    /\ probe.output.engines = {Get(alerts[i].engine, "Unknown") : i \in DOMAIN alerts}
    /\ probe.output.severity_counts =
            [Critical |-> CountOf(alerts, {"Critical"}), High |-> CountOf(alerts, {"High"}),
             Medium |-> CountOf(alerts, {"Medium"}), Low |-> CountOther(alerts)]

\* The call that a step of Spec executes, seen from the state it starts in:
\* its alert, the entities extracted, and for each entity what spec.md calls its
\* score (of the surviving sequence plus the alert) and whether it qualifies.
Ingested == call'.content
Extracted ==
    IF extract_entities_raises(Ingested) THEN {} ELSE extract_entities(Ingested)
Survivors(entity) == Lookup(clean_old_memory(memory, heap, now, time_window), entity)
ScoreOf(entity) == calculate_risk_score(Append(Deref(heap, Survivors(entity)), Ingested))
InCooldown(entity) ==
    entity \in DOMAIN cooldowns /\ now - cooldowns[entity] < COOLDOWN_PERIOD
OverThreshold(entity) ==
    ~ScoreOf(entity).raised /\ ScoreOf(entity).risk_score >= threshold
Qualifies(entity) == OverThreshold(entity) /\ ~InCooldown(entity)
Visited == call'.order
Target == call'.result.incident.target_entity

\* C3: ingest_alert returns an incident if and only if some extracted entity has,
\* with the alert appended, a score >= threshold and no cooldown entry younger
\* than 60 seconds.
C3_FiresIffQualifies ==
    [][IsIngest =>
        ((call'.result.kind = "incident") <=> (\E e \in Extracted : Qualifies(e)))]_vars

\* C4: when several extracted entities qualify, the call returns exactly one
\* incident, for the first qualifying entity in iteration order; the entities
\* after it are not appended to, and only the target's cooldown is written.
C4_FirstQualifyingWins ==
    [][(IsIngest /\ Cardinality({e \in Extracted : Qualifies(e)}) >= 2) =>
        /\ call'.result.kind = "incident"
        /\ Target = Visited[Len(Visited)]
        /\ Qualifies(Target)
        /\ \A i \in 1..(Len(Visited) - 1) :
             /\ ~Qualifies(Visited[i])
             /\ memory'[Visited[i]] = Append(Survivors(Visited[i]), call'.alert)
        /\ \A e \in Extracted \ Range(Visited) : Lookup(memory', e) = Survivors(e)
        /\ cooldowns' = write_cooldown(cooldowns, Target, now)
        /\ incidents_generated' = incidents_generated + 1]_vars

\* C7: ingest_alert returns an incident or None for every alert and never raises.
C7_NeverRaises == ~Returned("raised")

\* C8: a call whose alert yields no entity adds one to total_alerts_processed,
\* returns None, changes memory by pruning only and leaves cooldowns and
\* incidents_generated alone; every stored alert, and so every alert of an
\* incident, is one that maps to the entity it is stored under.
C8_NoEntityAlert ==
    /\ [][(IsIngest /\ ~extract_entities_raises(Ingested) /\ Extracted = {}) =>
            /\ total_alerts_processed' = total_alerts_processed + 1
            /\ call'.result.kind = "none"
            /\ memory' = clean_old_memory(memory, heap, now, time_window)
            /\ cooldowns' = cooldowns
            /\ incidents_generated' = incidents_generated
            /\ history' = history]_vars
    /\ [](\A e \in DOMAIN memory : \A i \in DOMAIN memory[e] :
             e \in extract_entities(heap[memory[e][i]]))
    /\ [](Returned("incident") =>
             \A i \in DOMAIN Incident.alert_ids :
                 Incident.target_entity \in extract_entities(heap[Incident.alert_ids[i]]))

\* an alert without entities arrives when the only stored alert, which fired an
\* incident, has expired: the call empties memory and the cooldown entry stays
C8_Witness ==
    /\ Returned("none")
    /\ extract_entities(call.content) = {}
    /\ call.caller = 2
    /\ total_alerts_processed = 2
    /\ incidents_generated = 1
    /\ memory = << >>
    /\ \E p \in fired :
         /\ p.call = 1
         /\ call.at - p.time >= time_window
         /\ p.entity \in DOMAIN cooldowns

C10_DoubleFireOnlyWhenInterleaved ==
    \A p \in fired : \A q \in fired :
        (p.call < q.call /\ p.entity = q.entity
           /\ q.time - p.time < COOLDOWN_PERIOD /\ p.time - q.time < COOLDOWN_PERIOD)
        => p.call \in q.overlaps

\* both calls passed the cooldown test before either wrote the cooldown entry
C10_Witness ==
    /\ \A c \in Callers : th[c].pc = "idle"
    /\ \E p \in fired : \E q \in fired :
         /\ p.call < q.call
         /\ p.entity = q.entity
         /\ q.time - p.time < COOLDOWN_PERIOD
         /\ p.time - q.time < COOLDOWN_PERIOD
         /\ p.call \in q.overlaps
    /\ incidents_generated = 2

\* the labels in the order the rules are evaluated
PatternLabels ==
    <<"APT_CHAIN", "INSIDER_THREAT", "NETWORK_ATTACK", "MALWARE_OUTBREAK",
      "MULTI_STAGE_ATTACK">>

\* the engine names present in a sequence, as the scorer and engines_involved name
\* them: an alert without an engine goes under the name Unknown
EngineNames(alerts) == {Get(alerts[i].engine, "Unknown") : i \in DOMAIN alerts}
ArtifactCount(alerts) ==
    Cardinality({i \in DOMAIN alerts : alerts[i].engine = "Artifact Engine"})

\* C11: a label is returned exactly when its rule holds of the engine names present
\* (MALWARE_OUTBREAK: of the number of Artifact Engine alerts), each label at most
\* once and in the fixed order; the AttackChainDetector methods decide the same rules.
C11_PatternRules ==
    LET alerts == probe.input
        names == EngineNames(alerts)
        out == probe.output
        has(label) == \E i \in DOMAIN out : out[i] = label
    IN  /\ has("APT_CHAIN") <=>
               {"Artifact Engine", "Traffic Engine", "Threat Intelligence"} \subseteq names
        /\ has("INSIDER_THREAT") <=>
               ("UEBA" \in names
                  /\ ("Traffic Engine" \in names \/ "Artifact Engine" \in names))
        /\ has("NETWORK_ATTACK") <=> {"IDS", "Traffic Engine"} \subseteq names
        /\ has("MALWARE_OUTBREAK") <=> ArtifactCount(alerts) >= 2
        /\ has("MULTI_STAGE_ATTACK") <=> Cardinality(names) >= 4
        /\ out = SelectSeq(PatternLabels, has)
        /\ detect_apt_chain(alerts) <=> has("APT_CHAIN")
        /\ detect_insider_threat(alerts) <=> has("INSIDER_THREAT")
        /\ detect_network_attack(alerts) <=> has("NETWORK_ATTACK")

\* sample sequences: one alert of each engine of a set, in a fixed order, and
\* possibly a second Artifact Engine alert
EngineOrder ==
    <<"Artifact Engine", "Traffic Engine", "Threat Intelligence", "UEBA", "IDS",
      "Unknown", MISSING>>
Sample(E, again) ==
    SelectSeq([i \in DOMAIN EngineOrder |-> PatternAlert(EngineOrder[i])],
              LAMBDA a : a.engine \in E)
        \o (IF again THEN <<PatternAlert("Artifact Engine")>> ELSE << >>)
PatternSamples ==
    {alerts \in {Sample(E, again) : E \in SUBSET PatternEngines, again \in BOOLEAN} :
        Len(alerts) <= MaxPatternLen}
\* the samples in which every alert carries an engine name
NamedSamples ==
    {alerts \in PatternSamples : \A i \in DOMAIN alerts : alerts[i].engine # MISSING}

LabelSet(patterns) == {patterns[i] : i \in DOMAIN patterns}

\* what _detect_attack_patterns returns for the samples
SampleOutputs == {detect_attack_patterns(alerts) : alerts \in PatternSamples}
NamedOutputs == {detect_attack_patterns(alerts) : alerts \in NamedSamples}

\* C12: for each of the five labels some alert sequence (a sample in which every
\* alert names its engine, or the sequence at hand) makes _detect_attack_patterns
\* return that label and no other.
C12_EachLabelAlone ==
    \A label \in LabelSet(PatternLabels) : <<label>> \in NamedOutputs \cup {probe.output}

\* four engine names that match no engine rule: MULTI_STAGE_ATTACK alone
C12_Witness ==
    /\ probe.output = <<"MULTI_STAGE_ATTACK">>
    /\ probe.input \in NamedSamples
    /\ Len(probe.input) = 4

\* C13 as stated: every subset of the five labels is returned for some sequence.
C13_AnySubset ==
    \A S \in SUBSET LabelSet(PatternLabels) :
        \E out \in SampleOutputs \cup {probe.output} : LabelSet(out) = S

\* the subsets that four distinct engines do not force MULTI_STAGE_ATTACK into
Realizable(S) ==
    \/ "MULTI_STAGE_ATTACK" \in S
    \/ /\ ~({"APT_CHAIN", "INSIDER_THREAT"} \subseteq S)
       /\ ~({"APT_CHAIN", "NETWORK_ATTACK"} \subseteq S)
       /\ ~({"INSIDER_THREAT", "NETWORK_ATTACK", "MALWARE_OUTBREAK"} \subseteq S)

RealizableSubsets == {S \in SUBSET LabelSet(PatternLabels) : Realizable(S)}
ReturnedSubsets == {LabelSet(out) : out \in NamedOutputs}

\* C13 amended: the rules are non-exclusive but not independent.  Every sequence
\* returns a realizable subset, and every realizable subset is returned for some
\* sequence.
C13_RealizableSubsets ==
    /\ LabelSet(probe.output) \in RealizableSubsets
    /\ RealizableSubsets \subseteq ReturnedSubsets

\* all five rules match at once
C13_Witness ==
    /\ probe.output = PatternLabels
    /\ Len(probe.input) = 6

\* the alert is about 10.0.0.5 and comes from the given engine with the given severity
IsAbout(alert, engine, severity) ==
    /\ alert.engine = engine
    /\ alert.severity = severity
    /\ IP \in extract_entities(alert)

\* C14: with threshold 60 and window 900 a first Artifact Engine / Critical alert
\* for 10.0.0.5 returns no incident; a Traffic Engine / Medium alert for it that
\* follows within the window returns the incident with score 75, both engines, no
\* pattern and two alerts; a third alert for it less than 60 seconds later returns
\* no incident.
C14_Scenario ==
    /\ [][(IsIngest /\ calls = 0 /\ IsAbout(Ingested, "Artifact Engine", "Critical")) =>
            /\ call'.result.kind = "none"
            /\ ScoreOf(IP).risk_score = 40]_vars
    /\ [][(IsIngest /\ calls = 1 /\ IsAbout(call.content, "Artifact Engine", "Critical")
              /\ now - call.at < time_window
              /\ IsAbout(Ingested, "Traffic Engine", "Medium")) =>
            /\ call'.result.kind = "incident"
            /\ call'.result.incident.target_entity = IP
            /\ call'.result.incident.risk_score = 75
            /\ call'.result.incident.engines_involved = {"Artifact Engine", "Traffic Engine"}
            /\ call'.result.incident.attack_patterns = << >>
            /\ call'.result.incident.alert_count = 2]_vars
    /\ [][(IsIngest /\ calls = 2 /\ Returned("incident") /\ Incident.target_entity = IP
              /\ Incident.risk_score = 75
              /\ now - call.at < COOLDOWN_PERIOD
              /\ IP \in Extracted) =>
            call'.result.kind = "none"]_vars

\* the third alert arrived 30 or 59 seconds after the incident and was suppressed
C14_Witness ==
    /\ calls = 3
    /\ Returned("none")
    /\ cooldowns = (IP :> call.at - 30) \/ cooldowns = (IP :> call.at - 59)
    /\ \E p \in fired : \E q \in suppressed :
         /\ p.call = 2 /\ p.entity = IP
         /\ q.call = 3 /\ q.entity = IP
    /\ Len(memory[IP]) = 3
    /\ heap[1].engine = "Artifact Engine" /\ heap[2].engine = "Traffic Engine"

\* the step is a get_statistics call
IsStats == call'.op = "stats" /\ call.op # "stats"

\* C15: every ingest_alert call adds one to total_alerts_processed, and one to
\* incidents_generated exactly when it returns an incident (both start at 0 at
\* construction and after reset, so they count the calls made and the incidents
\* returned, and incidents_generated <= total_alerts_processed); get_statistics
\* reports the entities and alert counts of memory as it is and changes nothing.
C15_CountersAndStatistics ==
    /\ [](call.op \in {"init", "reset"} =>
            total_alerts_processed = 0 /\ incidents_generated = 0)
    /\ [](incidents_generated <= total_alerts_processed)
    /\ [][IsIngest =>
            /\ total_alerts_processed' = total_alerts_processed + 1
            /\ incidents_generated' =
                  incidents_generated + (IF call'.result.kind = "incident" THEN 1 ELSE 0)]_vars
    /\ [][IsStats =>
            LET stats == call'.result.incident IN
            /\ stats.total_alerts_processed = total_alerts_processed
            /\ stats.incidents_generated = incidents_generated
            /\ stats.entities_tracked = Cardinality(DOMAIN memory)
            /\ {a.entity : a \in stats.active_entities} = DOMAIN memory
            /\ \A a \in stats.active_entities :
                 /\ a.alert_count = Len(memory[a.entity])
                 /\ a.engines = {EngineOrNone(heap[memory[a.entity][i]]) :
                                    i \in DOMAIN memory[a.entity]}
            /\ Cardinality(stats.active_entities) = Cardinality(DOMAIN memory)
            /\ UNCHANGED <<memory, cooldowns, total_alerts_processed,
                           incidents_generated, heap>>]_vars

\* the step is a reset call
IsReset == call'.op = "reset" /\ call.op # "reset"

\* the cooldowns the last reset cleared
Cleared == call.result.incident

\* a newly constructed engine, holding the dict of the call about to be made
Fresh == [memory |-> << >>, cooldowns |-> << >>, total_alerts_processed |-> 0,
          incidents_generated |-> 0, heap |-> (calls + 1 :> call'.content),
          history |-> {}]

\* the outcomes the call of this step can have on a newly constructed engine
FreshOutcomes ==
    {ingest_alert(Fresh, [th EXCEPT ![1] = Start(1, calls + 1, order)], 1, now) :
        order \in Orders(call'.content)}

\* C16: reset empties memory and cooldowns, sets both counters to 0 and keeps
\* threshold and time_window; the call after a reset behaves as on a newly
\* constructed engine (same result, same memory, cooldowns and counters), so an
\* entity whose incident was less than 60 seconds before the reset and whose
\* alert alone reaches the threshold fires at once.
C16_ResetIsFresh ==
    /\ [][IsReset =>
            /\ memory' = << >> /\ cooldowns' = << >>
            /\ total_alerts_processed' = 0 /\ incidents_generated' = 0
            /\ threshold' = threshold /\ time_window' = time_window]_vars
    /\ [][IsIngest /\ call.op = "reset" =>
            \E r \in FreshOutcomes :
                /\ call'.result = r.th[1].result
                /\ memory' = r.m.memory
                /\ cooldowns' = r.m.cooldowns
                /\ total_alerts_processed' = r.m.total_alerts_processed
                /\ incidents_generated' = r.m.incidents_generated]_vars
    /\ [][/\ IsIngest /\ call.op = "reset"
           /\ Visited # << >> /\ Visited[1] \in DOMAIN Cleared
           /\ now - Cleared[Visited[1]] < COOLDOWN_PERIOD
           /\ OverThreshold(Visited[1])
           /\ ~join_raises(ScoreOf(Visited[1]).engines)
           => call'.result.kind = "incident" /\ Target = Visited[1]]_vars

\* a reset has cleared a cooldown younger than 60 seconds and a call can follow
C16_Witness ==
    /\ call.op = "reset"
    /\ calls < MaxCalls
    /\ \E e \in DOMAIN Cleared : now - Cleared[e] < COOLDOWN_PERIOD
    /\ memory = << >> /\ cooldowns = << >>

\* the details of the incident the last call returned, and its target's sequence
Report == call.result.incident
Sequence == Stored(Report.target_entity)
Stamps == {Sequence[i].timestamp : i \in DOMAIN Sequence}

\* C17: in a returned incident the timeline has one entry per alert of the
\* target's sequence, in arrival order, numbered from 1, the ingested alert last;
\* alert_count is the timeline's length and the sum of the four severity counts,
\* engine_count the number of distinct engines involved, risk_score >= threshold.
C17_IncidentShape ==
    Returned("incident") =>
        LET d == Report
            ids == Lookup(memory, d.target_entity)
        IN  /\ d.alert_ids = ids
            /\ ids # << >> /\ ids[Len(ids)] = call.alert
            /\ DOMAIN d.timeline = DOMAIN Sequence
            /\ \A i \in DOMAIN Sequence :
                 d.timeline[i] =
                     ToString(i) \o ". [" \o Get(Sequence[i].engine, "Unknown") \o "] "
                         \o Get(Sequence[i].alertType, "Unknown")
                         \o " (" \o SeverityOf(Sequence[i]) \o ")"
            /\ d.alert_count = Len(d.timeline)
            /\ DOMAIN d.severity_breakdown = {"Critical", "High", "Medium", "Low"}
            /\ d.alert_count = d.severity_breakdown["Critical"] + d.severity_breakdown["High"]
                                 + d.severity_breakdown["Medium"] + d.severity_breakdown["Low"]
            /\ \A sev \in DOMAIN d.severity_breakdown :
                 d.severity_breakdown[sev] = CountOf(Sequence, {sev})
            /\ d.engines_involved = EngineNames(Sequence)
            /\ d.engine_count = Cardinality(d.engines_involved)
            /\ d.risk_score >= threshold

\* an incident over two alerts of different engines and severities
C17_Witness ==
    /\ Returned("incident")
    /\ Report.alert_count = 2
    /\ Report.engine_count = 2
    /\ Cardinality({SeverityOf(Sequence[i]) : i \in DOMAIN Sequence}) = 2

\* C18: in a returned incident window_start and window_end are the smallest and
\* the largest timestamp of the target's sequence, attack_duration is their
\* difference and never negative, and 0 when one alert contributed.
C18_Window ==
    Returned("incident") =>
        LET d == Report IN
        /\ d.window_start \in Stamps /\ \A x \in Stamps : d.window_start <= x
        /\ d.window_end \in Stamps /\ \A x \in Stamps : d.window_end >= x
        /\ d.attack_duration = d.window_end - d.window_start
        /\ d.attack_duration >= 0
        /\ d.alert_count = 1 => d.attack_duration = 0

\* an incident over alerts that arrived at different times
C18_Witness ==
    /\ Returned("incident")
    /\ Report.alert_count >= 2
    /\ Report.attack_duration > 0
    /\ Report.window_start = Sequence[1].timestamp
    /\ Report.window_end = call.at

\* the values the fields of names hold in obj, those absent or falsy left out
Carried(obj, names) ==
    IF obj.k # "dict" THEN {}
    ELSE {Str(obj.f[x]) : x \in {n \in names \cap DOMAIN obj.f : Truthy(obj.f[n])}}

IpAliases == {"ip_address", "source_ip", "destination_ip", "SourceIP", "DestinationIP",
              "target_ip", "attacker_ip"}
UserAliases == {"user_id", "username", "email"}

\* C19: for every alert _extract_entities returns a list without duplicates that
\* holds the bare value of each IP field of details and of flow_data, USER:value
\* for user_id, username, email of details and of user_profile, HASH:value for
\* file_hash and FILE:value for filename, and nothing for an absent or falsy
\* field; ingest_alert appends the alert once for each element of that list, so
\* once to an entity named by several fields.
C19_ExtractEntities ==
    LET details == probe.input.details
        top == [k |-> details.k, f |-> details.f]
    IN  /\ ~probe.raised
        /\ \A i, j \in DOMAIN probe.output : probe.output[i] = probe.output[j] => i = j
        /\ Range(probe.output) =
               Carried(top, IpAliases) \cup Carried(details.flow_data, IpAliases)
               \cup {"USER:" \o v : v \in Carried(top, UserAliases)
                                         \cup Carried(details.user_profile, UserAliases)}
               \cup {"HASH:" \o v : v \in Carried(top, {"file_hash"})}
               \cup {"FILE:" \o v : v \in Carried(top, {"filename"})}

\* the step is one POST attempt
IsPost == probe.pc = "post" /\ probe'.attempts = probe.attempts + 1

\* C20: send_alert makes at most MAX_RETRIES + 1 POST attempts for one payload,
\* returns True at the first attempt that succeeds, returns False when the last
\* of the MAX_RETRIES + 1 attempts has failed, always returns, and no step of it
\* changes memory, cooldowns or the counters of the engine.
C20_SendAlert ==
    /\ [](probe.attempts <= probe.max_retries + 1)
    /\ [][IsPost /\ probe'.last = "ok" =>
            probe'.pc = "returned" /\ probe'.result = TRUE]_vars
    /\ [][IsPost /\ probe'.last = "failed" =>
            IF probe'.attempts = probe.max_retries + 1
            THEN probe'.pc = "returned" /\ probe'.result = FALSE
            ELSE probe'.pc = "post"]_vars
    /\ [](probe.pc = "returned" =>
            IF probe.result THEN probe.last = "ok"
            ELSE probe.last = "failed" /\ probe.attempts = probe.max_retries + 1)
    /\ (probe.pc = "post") ~> (probe.pc = "returned")
    /\ [][probe' # probe =>
            UNCHANGED <<memory, cooldowns, total_alerts_processed,
                        incidents_generated>>]_vars

\* a delivery gave up after MAX_RETRIES + 1 failed attempts while the engine
\* held alerts and a cooldown
C20_Witness ==
    /\ probe.pc = "returned" /\ ~probe.result
    /\ probe.max_retries = MAX_RETRIES
    /\ probe.attempts = MAX_RETRIES + 1
    /\ memory # << >> /\ cooldowns # << >>

\* every alert stored for the entity is aged time_window or more at this clock value
AllAged(entity) ==
    \A i \in DOMAIN memory[entity] : now - heap[memory[entity][i]].timestamp >= time_window

Unexpired(id) == now - heap[id].timestamp < time_window

\* C22: a call with entities that returns None has appended the alert once, as the
\* last element, to the sequence of every extracted entity; a stored alert stays
\* in its sequence through every later call made before it is time_window old,
\* and the score of an incident for its entity is computed over it too.
C22_RecordedRegardless ==
    /\ [][(IsIngest /\ Extracted # {} /\ call'.result.kind = "none") =>
            \A e \in Extracted :
                /\ e \in DOMAIN memory'
                /\ memory'[e] = Append(Survivors(e), call'.alert)
                /\ call'.alert \notin Range(Survivors(e))]_vars
    /\ [][IsIngest =>
            \A e \in DOMAIN memory : \A i \in DOMAIN memory[e] :
                Unexpired(memory[e][i]) =>
                    /\ e \in DOMAIN memory'
                    /\ memory[e][i] \in Range(memory'[e])]_vars
    /\ [][(IsIngest /\ call'.result.kind = "incident") =>
            /\ call'.result.incident.alert_ids = memory'[Target]
            /\ call'.result.incident.risk_score
                  = calculate_risk_score(Deref(heap', memory'[Target])).risk_score]_vars

\* with threshold 60 the first alert of an entity was recorded by a call that
\* returned None, and the second call's incident counts it
C22_Witness ==
    /\ Returned("incident")
    /\ threshold = DEFAULT_THRESHOLD
    /\ incidents_generated = 1
    /\ Incident.alert_ids = <<1, 2>>
    /\ Cardinality(DOMAIN memory) >= 2

\* C23: the cooldown table changes only in an ingest_alert call that returns an
\* incident, which sets the entry of the incident's target to the time of the
\* call and changes no other entry; every other operation leaves the table as it
\* is, and only reset removes entries.
C23_CooldownFrame ==
    /\ [][IsIngest =>
            IF call'.result.kind = "incident"
            THEN cooldowns' = write_cooldown(cooldowns, Target, now)
            ELSE cooldowns' = cooldowns]_vars
    /\ [][~IsIngest /\ ~IsReset => cooldowns' = cooldowns]_vars
    /\ [][~IsReset =>
            \A e \in DOMAIN cooldowns : e \in DOMAIN cooldowns']_vars

\* C24: an ingested alert carries the clock value of its ingestion as timestamp,
\* whatever the caller had put there, and an alert stored in a sequence keeps its
\* timestamp and content as long as it is stored, also through a call that is
\* given the same alert object again.
C24_StoredAlertsImmutable ==
    /\ [][IsIngest => call'.content.timestamp = now]_vars
    /\ [](\A e \in DOMAIN memory : \A i \in DOMAIN memory[e] :
             heap[memory[e][i]].timestamp <= now)
    /\ [][\A e \in DOMAIN memory : \A i \in DOMAIN memory[e] :
             memory[e][i] \in Range(Lookup(memory', e)) =>
                 heap'[memory[e][i]] = heap[memory[e][i]]]_vars

\* C25: a call that returns an incident for E has appended the alert to the
\* sequences of E and of the entities iterated before E, and to no sequence of an
\* entity iterated after E, whose memory is what pruning left; an alert enters a
\* sequence only in its own call, so it never counts for those later entities.
C25_ShortCircuitFrame ==
    /\ [][(IsIngest /\ call'.result.kind = "incident") =>
            LET left == clean_old_memory(memory, heap, now, time_window) IN
            /\ Target = Visited[Len(Visited)]
            /\ \A e \in Range(Visited) :
                 memory'[e] = Append(Lookup(left, e), call'.alert)
            /\ \A e \in Extracted \ Range(Visited) :
                 /\ Lookup(memory', e) = Lookup(left, e)
                 /\ call'.alert \notin Range(Lookup(memory', e))
            /\ \A e \in DOMAIN memory' \ Extracted :
                 memory'[e] = Lookup(left, e)]_vars
    /\ [][IsIngest =>
            \A e \in DOMAIN memory' : \A i \in DOMAIN memory'[e] :
                \/ memory'[e][i] \in Range(Lookup(memory, e))
                \/ memory'[e][i] = call'.alert /\ e \in Range(Visited)]_vars

\* an incident for the second entity iterated: the first, in cooldown, got the
\* alert, and an entity after the target did not
C25_Witness ==
    /\ Returned("incident")
    /\ Len(call.order) = 2
    /\ Cardinality(extract_entities(call.content)) > 2
    /\ call.alert \in Range(memory[call.order[1]])
    /\ \E e \in extract_entities(call.content) \ Range(call.order) :
         call.alert \notin Range(Lookup(memory, e))

\* the outcomes the call of this step has, one for each order in which
\* list(set(entities)) can list the alert's entities
OrderOutcomes ==
    {ingest_alert([Machine EXCEPT !.heap = @ @@ (calls + 1 :> call'.content)],
                  [th EXCEPT ![1] = Start(1, calls + 1, order)], 1, now) :
        order \in Orders(call'.content)}

\* C26: for a given engine state, clock value and alert, the result of
\* ingest_alert and the memory, cooldown table and counters it leaves are the
\* same for every order in which the extracted entities are iterated.
C26_OrderIndependent ==
    [][IsIngest =>
        \A r \in OrderOutcomes :
            /\ call'.result.kind = r.th[1].result.kind
            /\ call'.result = r.th[1].result
            /\ memory' = r.m.memory
            /\ cooldowns' = r.m.cooldowns
            /\ total_alerts_processed' = r.m.total_alerts_processed
            /\ incidents_generated' = r.m.incidents_generated]_vars

\* C27: a call that raises leaves memory as pruning left it and leaves the
\* cooldown table and both counters as they were before the call.
C27_FailureLeavesNoTrace ==
    [][(IsIngest /\ call'.result.kind = "raised") =>
        /\ memory' = clean_old_memory(memory, heap, now, time_window)
        /\ cooldowns' = cooldowns
        /\ total_alerts_processed' = total_alerts_processed
        /\ incidents_generated' = incidents_generated]_vars

\* the sequence without its last alert
Front(alerts) == SubSeq(alerts, 1, Len(alerts) - 1)

\* C28: appending an alert to a sequence never lowers the score the scorer
\* returns: the severity sum grows, the number of engines does not shrink, and
\* the truncated product does not shrink either; so a sequence that has reached
\* the threshold stays at or above it while alerts are only added.
C28_ScoreMonotone ==
    [][(probe'.input # probe.input /\ ~probe'.output.raised) =>
        /\ Front(probe'.input) = probe.input
        /\ ~probe.output.raised
        /\ RawSum(probe'.input) > RawSum(probe.input)
        /\ EngineCount(probe'.input) >= EngineCount(probe.input)
        /\ probe'.output.risk_score >= probe.output.risk_score
        /\ probe.output.risk_score >= threshold =>
              probe'.output.risk_score >= threshold]_vars

\* a sequence over the threshold to which an alert of one more engine was
\* appended, the product being truncated
C28_Witness ==
    /\ ~probe.output.raised
    /\ Len(probe.input) >= 3
    /\ calculate_risk_score(Front(probe.input)).risk_score >= threshold
    /\ EngineCount(probe.input) > EngineCount(Front(probe.input))
    /\ probe.output.risk_score >= threshold
    /\ 2 * probe.output.risk_score # 3 * RawSum(probe.input)
    /\ EngineCount(probe.input) = 2

\* C29: with the default threshold of 60 no incident has alert_count = 1, since
\* one alert is of one engine and scores 40 at most; every incident lists at
\* least two alerts of its target, each younger than time_window at the call.
C29_NoSingleAlertIncident ==
    (Returned("incident") /\ threshold = DEFAULT_THRESHOLD) =>
        /\ Incident.alert_count >= 2
        /\ Len(Incident.timeline) >= 2
        /\ \A i \in DOMAIN Incident.alert_ids :
             /\ Incident.target_entity \in extract_entities(heap[Incident.alert_ids[i]])
             /\ call.at - heap[Incident.alert_ids[i]].timestamp < time_window
        /\ \A i \in DOMAIN Incident.alert_ids :
             calculate_risk_score(<<heap[Incident.alert_ids[i]]>>).risk_score <= 40

\* an incident over the second and third alert, the first having expired
C29_Witness ==
    /\ Returned("incident")
    /\ threshold = DEFAULT_THRESHOLD
    /\ Incident.alert_ids = <<2, 3>>
    /\ call.at >= time_window
    /\ total_alerts_processed = 3

\* C30: with calls that do not overlap, a clock that never goes back and a new
\* dict for every call, the timestamps of every sequence are non-decreasing in
\* sequence order, and an incident has window_end equal to the timestamp of the
\* alert ingested by its call and attack_duration below time_window.
C30_OrderedWithinWindow ==
    /\ \A e \in DOMAIN memory : \A i, j \in DOMAIN memory[e] :
         i < j => heap[memory[e][i]].timestamp <= heap[memory[e][j]].timestamp
    /\ Returned("incident") =>
         /\ Incident.window_end = call.content.timestamp
         /\ Incident.attack_duration < time_window

=============================================================================
